---- MODULE Spec2Model ----
(***************************************************************************)
(* Model of src/index.js: an Express relay with a streaming endpoint       *)
(* (POST /api/gemini_stream) and a JSON endpoint (POST /api/gemini_chat).  *)
(* One inbound request is modelled per behaviour; Init chooses the         *)
(* endpoint, the request body and the configured credential.  Every        *)
(* continuation of an async handler (the code between two awaits) is one   *)
(* action, because Node runs it without interleaving.                      *)
(***************************************************************************)
EXTENDS Integers, Sequences, FiniteSets, TLC

\* ------------------------------------------------------------------ bounds
\* upstream body chunks one streaming session may read
MaxChunks == 2
\* bytes in one upstream body chunk
MaxChunkLen == 1
\* keep-alive ticks one streaming session may see
MaxHeartbeats == 1
\* elements of the candidates / output lists of an upstream JSON reply
MaxListLen == 1

\* ------------------------------------------------------- values and inputs
\* JavaScript undefined (an absent body field, an unset environment variable)
Undefined == "<undefined>"

\* req.body.message as the handlers destructure it (lines 20, 110)
Messages == {Undefined, "", "hi"}

\* process.env.GEMINI_API_KEY (line 7)
ApiKeys == {Undefined, "", "secret"}

\* a presence check that forgets the empty string
FalsyMissingOnly(v) == v = Undefined

\* an emptiness check that forgets an unset value
FalsyEmptyOnly(v) == v = ""

\* JavaScript truthiness of a string-or-undefined value: `!v` is Falsy(v)
Falsy(v) == v = Undefined \/ v = ""

\* Bytes of an upstream body: an ASCII byte, the lead byte and the
\* continuation byte of the two-byte UTF-8 sequence of U+00E9.
Bytes == {"41", "C3", "A9"}

RECURSIVE SeqsUpTo(_, _)
SeqsUpTo(S, n) ==
  IF n = 0 THEN {<<>>}
  ELSE LET shorter == SeqsUpTo(S, n - 1)
       IN  shorter \cup {Append(s, x) : s \in shorter, x \in S}

\* the values reader.read() can deliver
Chunks == SeqsUpTo(Bytes, MaxChunkLen) \ {<<>>}

\* TextDecoder.decode(value, {stream: true}) (line 87): pend is the decoder's
\* carried state (a lead byte seen, its continuation not yet).  The result is
\* the decoded characters and the state carried to the next call.
RECURSIVE Decode(_, _)
Decode(pend, bytes) ==
  IF bytes = <<>> THEN [text |-> <<>>, pend |-> pend]
  ELSE LET b == Head(bytes)
           Emit(c, rest) == [text |-> <<c>> \o rest.text, pend |-> rest.pend]
       IN  IF pend
             THEN IF b = "A9"
                    THEN Emit("U+00E9", Decode(FALSE, Tail(bytes)))
                    ELSE Emit("U+FFFD", Decode(FALSE, bytes))
             ELSE IF b = "41" THEN Emit("A", Decode(FALSE, Tail(bytes)))
             ELSE IF b = "C3" THEN Decode(TRUE, Tail(bytes))
             ELSE Emit("U+FFFD", Decode(FALSE, Tail(bytes)))

\* ---------------------------------------------------------- stream events
\* what res.write puts on the channel
Event(kind, payload) == [kind |-> kind, payload |-> payload]
\* line 34
HeartbeatEvent == Event("comment", <<"heartbeat">>)
\* line 90
ChunkEvent(text) == Event("chunk", text)
\* lines 70, 77, 100, 103
ErrorEvent(msg) == Event("error", <<msg>>)
\* line 93
DoneEvent == Event("done", <<"[DONE]">>)

\* ---------------------------------------------------------------- state
VARIABLES
  message,        \* req.body.message of the request
  GEMINI_API_KEY, \* the configured credential
  \* --- streaming session (lines 19-106)
  pc,             \* handler position: idle, start, await_fetch, await_text,
                  \* await_read, done (returned), threw (an error escaped)
  status,         \* HTTP status of a res.status(..).json(..) response, 0 if none
  body,           \* the error text of that JSON response
  sse,            \* the event-stream headers are set (lines 25-29)
  sent,           \* events res.write accepted, in order
  ended,          \* res.end() was called
  closed,         \* the handler's `closed` flag (line 31)
  heartbeat,      \* the setInterval timer: unset, armed, cleared
  hbStops,        \* clearInterval(heartbeat) calls so far
  hbTicks,        \* heartbeat callbacks run so far
  aborted,        \* controller.signal.aborted
  abortCause,     \* which trigger aborted first: none, timeout, close
  abortCalls,     \* controller.abort() calls so far
  id,             \* the setTimeout timer: unset, armed, cleared, fired
  closeFired,     \* the req 'close' listener has run
  connected,      \* the client's connection is alive
  upstream,       \* the upstream call: none, pending, streaming, finished,
                  \* failed, cancelled
  calls,          \* fetch calls the streaming handler issued
  fetched,        \* how the fetch settled: none, ok, nobody, notok, abort, neterr
  errText,        \* how upstream.text() settled: none, ok, failed
  produced,       \* chunks reader.read() delivered, in order
  decoder,        \* the TextDecoder's carried state (a pending lead byte)
  loopExit,       \* how the read loop was left: none, done, closed, writefail
  \* --- non-streaming request (lines 109-153)
  c_pc,           \* idle, start, await_fetch, await_text, await_json, done
  c_status,       \* HTTP status of the response, 0 if none
  c_body,         \* [error |-> ..] or [reply |-> ..]; <<>> if none
  c_responses,    \* responses sent
  c_id,           \* the setTimeout timer
  c_aborted,      \* controller.signal.aborted
  c_upstream,     \* the upstream call
  c_calls,        \* fetch calls the handler issued
  c_fetched,      \* how the fetch settled
  c_data          \* what r.json().catch(()=>null) gave

cfgVars == <<message, GEMINI_API_KEY>>
streamVars == <<pc, status, body, sse, sent, ended, closed, heartbeat, hbStops,
                hbTicks, aborted, abortCause, abortCalls, id, closeFired,
                connected, upstream, calls, fetched, errText, produced, decoder,
                loopExit>>
chatVars == <<c_pc, c_status, c_body, c_responses, c_id, c_aborted, c_upstream,
              c_calls, c_fetched, c_data>>
vars == <<cfgVars, streamVars, chatVars>>


\* --------------------------------------------------------------- Init
Init ==
  /\ message \in Messages
  /\ GEMINI_API_KEY \in ApiKeys
  /\ \/ pc = "start" /\ c_pc = "idle"
     \/ pc = "idle" /\ c_pc = "start"
  /\ status = 0 /\ body = "" /\ sse = FALSE /\ sent = <<>> /\ ended = FALSE
  /\ closed = FALSE /\ heartbeat = "unset" /\ hbStops = 0 /\ hbTicks = 0
  /\ aborted = FALSE /\ abortCause = "none" /\ abortCalls = 0 /\ id = "unset"
  /\ closeFired = FALSE /\ connected = TRUE /\ upstream = "none" /\ calls = 0
  /\ fetched = "none" /\ errText = "none" /\ produced = <<>> /\ decoder = FALSE
  /\ loopExit = "none"
  /\ c_status = 0 /\ c_body = [kind |-> "none", text |-> ""] /\ c_responses = 0
  /\ c_id = "unset" /\ c_aborted = FALSE /\ c_upstream = "none" /\ c_calls = 0
  /\ c_fetched = "none"
  /\ c_data = [isNull |-> TRUE,
               candidates |-> [has |-> FALSE, items |-> <<>>],
               output |-> [has |-> FALSE, items |-> <<>>]]

\* ------------------------------------------------ streaming: helper steps
\* res.write on the channel: it succeeds while the client's connection is
\* alive; once the connection is gone it may be accepted or throw.
WriteOutcomes == IF connected THEN {"ok"} ELSE {"ok", "throw"}

\* an abort that takes effect again on every call
AbortNotIdempotent(cause) ==
  /\ abortCalls' = abortCalls + 1
  /\ aborted' = TRUE
  /\ abortCause' = cause
  /\ upstream' = IF upstream \in {"pending", "streaming", "finished", "failed"}
                   THEN "cancelled" ELSE upstream

\* controller.abort() (lines 44, 49): the first call aborts the signal and
\* tears down the upstream call in flight; a later call changes nothing.
Abort(cause) ==
  /\ abortCalls' = abortCalls + 1
  /\ aborted' = TRUE
  /\ abortCause' = IF aborted THEN abortCause ELSE cause
  /\ upstream' = IF ~aborted /\ upstream \in {"pending", "streaming"}
                   THEN "cancelled" ELSE upstream

\* a catch block that does not tell the abort from other errors
CaughtMessageGeneric(name) == "Internal server error"

\* the message the catch block picks for an error name (lines 99-103)
CaughtMessage(name) ==
  IF name = "AbortError" THEN "AI request timed out" ELSE "Internal server error"

\* a catch block whose AbortError branch does not return
CatchBlockFallThrough(name, s) ==
  /\ heartbeat' = "cleared"
  /\ hbStops' = hbStops + 1
  /\ ended' = TRUE
  /\ pc' = "done"
  /\ sent' = IF closed THEN s
             ELSE IF name = "AbortError"
               THEN s \o <<ErrorEvent("AI request timed out"),
                           ErrorEvent("Internal server error")>>
               ELSE Append(s, ErrorEvent("Internal server error"))

\* a catch block that writes its error event without testing `closed`
CatchBlockUnguarded(name, s) ==
  /\ heartbeat' = "cleared"
  /\ hbStops' = hbStops + 1
  /\ sent' = Append(s, ErrorEvent(CaughtMessage(name)))
  /\ ended' = TRUE
  /\ pc' = "done"

\* catch (err) { ... } (lines 96-105); s is the channel's content so far.
\* A write that throws here leaves the handler through the rejected promise.
CatchBlock(name, s) ==
  /\ heartbeat' = "cleared"
  /\ hbStops' = hbStops + 1
  /\ IF closed
       THEN sent' = s /\ ended' = TRUE /\ pc' = "done"
       ELSE \E w \in WriteOutcomes :
              IF w = "ok"
                THEN /\ sent' = Append(s, ErrorEvent(CaughtMessage(name)))
                     /\ ended' = TRUE
                     /\ pc' = "done"
                ELSE sent' = s /\ ended' = ended /\ pc' = "threw"

\* the same exit without the `closed` guard on the write
GuardedWriteEndUnguarded(ev, s) ==
  /\ sent' = Append(s, ev)
  /\ heartbeat' = "cleared" /\ hbStops' = hbStops + 1
  /\ ended' = TRUE /\ pc' = "done"

\* the same exit that forgets clearInterval when the client is gone
GuardedWriteEndNoClear(ev, s) ==
  /\ sent' = IF closed THEN s ELSE Append(s, ev)
  /\ heartbeat' = IF closed THEN heartbeat ELSE "cleared"
  /\ hbStops' = IF closed THEN hbStops ELSE hbStops + 1
  /\ ended' = TRUE /\ pc' = "done"

\* `if(!closed) res.write(ev); clearInterval(heartbeat); res.end();` inside
\* the try block (lines 70-72, 77-79, 93-95)
GuardedWriteEnd(ev, s) ==
  IF closed
    THEN /\ sent' = s
         /\ heartbeat' = "cleared" /\ hbStops' = hbStops + 1
         /\ ended' = TRUE /\ pc' = "done"
    ELSE \E w \in WriteOutcomes :
           IF w = "ok"
             THEN /\ sent' = Append(s, ev)
                  /\ heartbeat' = "cleared" /\ hbStops' = hbStops + 1
                  /\ ended' = TRUE /\ pc' = "done"
             ELSE CatchBlock("Error", s)

\* how `await fetch(..., {signal})` can settle (lines 56-64): an aborted
\* signal rejects it with AbortError
FetchOutcomes(isAborted) ==
  IF isAborted THEN {"abort"} ELSE {"ok", "nobody", "notok", "neterr"}

\* how `await upstream.text()` can settle (line 68)
TextOutcomes(isAborted) == IF isAborted THEN {"failed"} ELSE {"ok", "failed"}

\* how `await reader.read()` can settle (line 85).  After an abort the read
\* rejects with AbortError, unless a chunk or the end of the body had already
\* been delivered to the reader.
ReadOutcomes(isAborted, n) ==
  {"done", "neterr"} \cup (IF n < MaxChunks THEN {"data"} ELSE {})
                     \cup (IF isAborted THEN {"abort"} ELSE {})

\* ------------------------------------------------- streaming: the actions
\* lines 19-64: validation, event-stream set-up, timers, the upstream call
StreamRequest ==
  /\ pc = "start"
  /\ IF Falsy(message)
       THEN /\ status' = 400 /\ body' = "message required"
            /\ ended' = TRUE /\ pc' = "done"
            /\ UNCHANGED <<sse, heartbeat, id, upstream, calls>>
       ELSE IF Falsy(GEMINI_API_KEY)
         THEN /\ status' = 500 /\ body' = "GEMINI_API_KEY not configured in server"
              /\ ended' = TRUE /\ pc' = "done"
              /\ UNCHANGED <<sse, heartbeat, id, upstream, calls>>
         ELSE /\ sse' = TRUE
              /\ heartbeat' = "armed"
              /\ id' = "armed"
              /\ calls' = calls + 1
              /\ upstream' = "pending"
              /\ pc' = "await_fetch"
              /\ UNCHANGED <<status, body, ended>>
  /\ UNCHANGED <<sent, closed, hbStops, hbTicks, aborted, abortCause, abortCalls,
                 closeFired, connected, fetched, errText, produced, decoder,
                 loopExit>>
  /\ UNCHANGED <<cfgVars, chatVars>>

\* lines 33-35: the keep-alive callback; a write that throws is ignored
Heartbeat ==
  /\ heartbeat = "armed"
  /\ hbTicks < MaxHeartbeats
  /\ hbTicks' = hbTicks + 1
  /\ \E w \in WriteOutcomes :
       sent' = IF w = "ok" THEN Append(sent, HeartbeatEvent) ELSE sent
  /\ UNCHANGED <<pc, status, body, sse, ended, closed, heartbeat, hbStops,
                 aborted, abortCause, abortCalls, id, closeFired, connected,
                 upstream, calls, fetched, errText, produced, decoder, loopExit>>
  /\ UNCHANGED <<cfgVars, chatVars>>

\* the client's connection goes away (the environment)
ClientDisconnect ==
  /\ sse /\ connected /\ ~ended
  /\ connected' = FALSE
  /\ UNCHANGED <<pc, status, body, sse, sent, ended, closed, heartbeat, hbStops,
                 hbTicks, aborted, abortCause, abortCalls, id, closeFired,
                 upstream, calls, fetched, errText, produced, decoder, loopExit>>
  /\ UNCHANGED <<cfgVars, chatVars>>

\* lines 40-45: the req 'close' listener, run once, after the connection went
\* away or after the response was ended
ClientClose ==
  /\ sse /\ ~closeFired
  /\ ~connected \/ ended
  /\ closeFired' = TRUE
  /\ closed' = TRUE
  /\ heartbeat' = "cleared"
  /\ hbStops' = hbStops + 1
  /\ Abort("close")
  /\ UNCHANGED <<pc, status, body, sse, sent, ended, hbTicks, id, connected,
                 calls, fetched, errText, produced, decoder, loopExit>>
  /\ UNCHANGED <<cfgVars, chatVars>>

\* line 49: the setTimeout callback
TimeoutFire ==
  /\ id = "armed"
  /\ id' = "fired"
  /\ Abort("timeout")
  /\ UNCHANGED <<pc, status, body, sse, sent, ended, closed, heartbeat, hbStops,
                 hbTicks, closeFired, connected, calls, fetched, errText,
                 produced, decoder, loopExit>>
  /\ UNCHANGED <<cfgVars, chatVars>>

\* the same continuation without clearTimeout(id)
FetchSettlesNoClear ==
  /\ pc = "await_fetch"
  /\ \E o \in FetchOutcomes(aborted) :
       /\ fetched' = o
       /\ CASE o = "abort" ->
                 /\ CatchBlock("AbortError", sent)
                 /\ UNCHANGED upstream
            [] o = "neterr" ->
                 /\ CatchBlock("FetchError", sent)
                 /\ upstream' = "failed"
            [] o = "notok" ->
                 /\ upstream' = "streaming"
                 /\ pc' = "await_text"
                 /\ UNCHANGED <<sent, ended, heartbeat, hbStops>>
            [] o = "nobody" ->
                 /\ upstream' = "finished"
                 /\ GuardedWriteEnd(ErrorEvent("No stream from upstream"), sent)
            [] o = "ok" ->
                 /\ upstream' = "streaming"
                 /\ pc' = "await_read"
                 /\ UNCHANGED <<sent, ended, heartbeat, hbStops>>
  /\ UNCHANGED <<status, body, sse, closed, hbTicks, aborted, abortCause,
                 abortCalls, id, closeFired, connected, calls, errText, produced,
                 decoder, loopExit>>
  /\ UNCHANGED <<cfgVars, chatVars>>

\* lines 56-82 and 96-105: the continuation of `await fetch(...)`
FetchSettles ==
  /\ pc = "await_fetch"
  /\ \E o \in FetchOutcomes(aborted) :
       /\ fetched' = o
       /\ CASE o = "abort" ->
                 /\ CatchBlock("AbortError", sent)
                 /\ UNCHANGED <<id, upstream>>
            [] o = "neterr" ->
                 /\ CatchBlock("FetchError", sent)
                 /\ upstream' = "failed"
                 /\ UNCHANGED id
            [] o = "notok" ->
                 /\ id' = "cleared"
                 /\ upstream' = "streaming"
                 /\ pc' = "await_text"
                 /\ UNCHANGED <<sent, ended, heartbeat, hbStops>>
            [] o = "nobody" ->
                 /\ id' = "cleared"
                 /\ upstream' = "finished"
                 /\ GuardedWriteEnd(ErrorEvent("No stream from upstream"), sent)
            [] o = "ok" ->
                 /\ id' = "cleared"
                 /\ upstream' = "streaming"
                 /\ pc' = "await_read"
                 /\ UNCHANGED <<sent, ended, heartbeat, hbStops>>
  /\ UNCHANGED <<status, body, sse, closed, hbTicks, aborted, abortCause,
                 abortCalls, closeFired, connected, calls, errText, produced,
                 decoder, loopExit>>
  /\ UNCHANGED <<cfgVars, chatVars>>

\* the same continuation without the .catch on upstream.text()
TextSettlesNoCatch ==
  /\ pc = "await_text"
  /\ \E o \in TextOutcomes(aborted) :
       /\ errText' = o
       /\ upstream' = IF upstream = "streaming"
                        THEN (IF o = "ok" THEN "finished" ELSE "failed")
                        ELSE upstream
       /\ IF o = "ok"
            THEN GuardedWriteEnd(ErrorEvent("Upstream error"), sent)
            ELSE CatchBlock("FetchError", sent)
  /\ UNCHANGED <<status, body, sse, closed, hbTicks, aborted, abortCause,
                 abortCalls, id, closeFired, connected, calls, fetched,
                 produced, decoder, loopExit>>
  /\ UNCHANGED <<cfgVars, chatVars>>

\* lines 68-72: the continuation of `await upstream.text().catch(()=>null)`
TextSettles ==
  /\ pc = "await_text"
  /\ \E o \in TextOutcomes(aborted) :
       /\ errText' = o
       /\ upstream' = IF upstream = "streaming"
                        THEN (IF o = "ok" THEN "finished" ELSE "failed")
                        ELSE upstream
  /\ GuardedWriteEnd(ErrorEvent("Upstream error"), sent)
  /\ UNCHANGED <<status, body, sse, closed, hbTicks, aborted, abortCause,
                 abortCalls, id, closeFired, connected, calls, fetched,
                 produced, decoder, loopExit>>
  /\ UNCHANGED <<cfgVars, chatVars>>

\* the loop's exit without the completion sentinel
AfterLoopNoDone(how, s) ==
  /\ loopExit' = how
  /\ sent' = s
  /\ heartbeat' = "cleared" /\ hbStops' = hbStops + 1
  /\ ended' = TRUE /\ pc' = "done"

\* the loop's exit that ends the channel without clearInterval
AfterLoopNoClear(how, s) ==
  /\ loopExit' = how
  /\ sent' = IF closed THEN s ELSE Append(s, DoneEvent)
  /\ UNCHANGED <<heartbeat, hbStops>>
  /\ ended' = TRUE /\ pc' = "done"

\* lines 93-95: what follows the read loop, however it was left
AfterLoop(how, s) ==
  /\ loopExit' = how
  /\ GuardedWriteEnd(DoneEvent, s)

\* lines 84-95 and 96-105: the continuation of `await reader.read()`
ReadSettles ==
  /\ pc = "await_read"
  /\ \E o \in ReadOutcomes(aborted, Len(produced)) :
       CASE o = "done" ->
              /\ AfterLoop("done", sent)
              /\ upstream' = IF upstream = "streaming" THEN "finished" ELSE upstream
              /\ UNCHANGED <<produced, decoder>>
         [] o = "data" ->
              \E value \in Chunks :
                LET d == Decode(decoder, value)
                IN  /\ produced' = Append(produced, value)
                    /\ decoder' = d.pend
                    /\ UNCHANGED upstream
                    /\ IF closed
                         THEN AfterLoop("closed", sent)
                         ELSE \E w \in WriteOutcomes :
                                IF w = "ok"
                                  THEN /\ sent' = Append(sent, ChunkEvent(d.text))
                                       /\ UNCHANGED <<pc, ended, heartbeat,
                                                      hbStops, loopExit>>
                                  ELSE AfterLoop("writefail", sent)
         [] o = "abort" ->
              /\ CatchBlock("AbortError", sent)
              /\ UNCHANGED <<upstream, produced, decoder, loopExit>>
         [] o = "neterr" ->
              /\ CatchBlock("FetchError", sent)
              /\ upstream' = IF upstream = "streaming" THEN "failed" ELSE upstream
              /\ UNCHANGED <<produced, decoder, loopExit>>
  /\ UNCHANGED <<status, body, sse, closed, hbTicks, aborted, abortCause,
                 abortCalls, id, closeFired, connected, calls, fetched, errText>>
  /\ UNCHANGED <<cfgVars, chatVars>>

StreamNext ==
  \/ StreamRequest
  \/ Heartbeat
  \/ ClientDisconnect
  \/ ClientClose
  \/ TimeoutFire
  \/ FetchSettles
  \/ TextSettles
  \/ ReadSettles

\* --------------------------------------- non-streaming: the upstream reply
\* The parsed upstream reply, as far as line 146 looks into it.  A list
\* element is [has, val]: whether it has the property read (`output` of a
\* candidate, `content` of an output element) and the property's string.
NoField == [has |-> FALSE, items |-> <<>>]

CandidateItems ==
  {[has |-> FALSE, val |-> ""]} \cup {[has |-> TRUE, val |-> v] : v \in {"", "hi there"}}

OutputItems ==
  {[has |-> FALSE, val |-> ""]} \cup {[has |-> TRUE, val |-> v] : v \in {"", "alt"}}

Fields(Items) ==
  {NoField} \cup {[has |-> TRUE, items |-> l] : l \in SeqsUpTo(Items, MaxListLen)}

\* r.json().catch(()=>null) gives null for a body that does not parse
Null == [isNull |-> TRUE, candidates |-> NoField, output |-> NoField]

Datas ==
  {Null} \cup {[isNull |-> FALSE, candidates |-> c, output |-> o] :
                 c \in Fields(CandidateItems), o \in Fields(OutputItems)}

RECURSIVE Join(_)
Join(strs) ==
  IF strs = <<>> THEN ""
  ELSE IF Len(strs) = 1 THEN strs[1]
  ELSE strs[1] \o "," \o Join(Tail(strs))

\* JSON.stringify of one list element holding property `key`
StringifyItem(key, it) ==
  IF it.has THEN "{\"" \o key \o "\":\"" \o it.val \o "\"}" ELSE "{}"

\* JSON.stringify of one field of the reply, as a one-element list of
\* "key":[...] or the empty list when the field is absent
StringifyField(name, key, f) ==
  IF f.has
    THEN <<"\"" \o name \o "\":["
           \o Join([i \in 1..Len(f.items) |-> StringifyItem(key, f.items[i])])
           \o "]">>
    ELSE <<>>

\* JSON.stringify(data) (line 146)
Stringify(data) ==
  IF data.isNull THEN "null"
  ELSE "{" \o Join(StringifyField("candidates", "output", data.candidates)
                   \o StringifyField("output", "content", data.output)) \o "}"

\* data.<field> && data.<field>[0] && data.<field>[0].<key> is truthy
Truthy0(data, f) ==
  /\ ~data.isNull
  /\ f.has
  /\ Len(f.items) > 0
  /\ f.items[1].has
  /\ f.items[1].val # ""

\* line 146: the reply, by the first truthy alternative of the || chain
ExtractReply(data) ==
  IF Truthy0(data, data.candidates) THEN data.candidates.items[1].val
  ELSE IF Truthy0(data, data.output) THEN data.output.items[1].val
  ELSE Stringify(data)

\* ---------------------------------------------- non-streaming: the actions
\* res.status(code).json({error}) / res.json({reply})
Respond(code, kind, text) ==
  /\ c_status' = code
  /\ c_body' = [kind |-> kind, text |-> text]
  /\ c_responses' = c_responses + 1
  /\ c_pc' = "done"

\* a catch block that answers every error alike
ChatCaughtGeneric(name) == [code |-> 500, text |-> "Internal server error"]

\* the status and message the catch block picks (lines 150-151)
ChatCaught(name) ==
  IF name = "AbortError"
    THEN [code |-> 504, text |-> "AI request timed out"]
    ELSE [code |-> 500, text |-> "Internal server error"]

\* lines 109-135: validation, the timer, the upstream call
ChatRequest ==
  /\ c_pc = "start"
  /\ IF Falsy(message)
       THEN /\ Respond(400, "error", "message required")
            /\ UNCHANGED <<c_id, c_upstream, c_calls>>
       ELSE IF Falsy(GEMINI_API_KEY)
         THEN /\ Respond(500, "error", "GEMINI_API_KEY not configured in server")
              /\ UNCHANGED <<c_id, c_upstream, c_calls>>
         ELSE /\ c_id' = "armed"
              /\ c_calls' = c_calls + 1
              /\ c_upstream' = "pending"
              /\ c_pc' = "await_fetch"
              /\ UNCHANGED <<c_status, c_body, c_responses>>
  /\ UNCHANGED <<c_aborted, c_fetched, c_data>>
  /\ UNCHANGED <<cfgVars, streamVars>>

\* a timeout callback that aborts a controller shared by all requests
ChatTimeoutFireShared ==
  /\ c_id = "armed"
  /\ c_id' = "fired"
  /\ c_aborted' = TRUE
  /\ c_upstream' = IF ~c_aborted /\ c_upstream \in {"pending", "streaming"}
                     THEN "cancelled" ELSE c_upstream
  /\ Abort("timeout")
  /\ UNCHANGED <<c_pc, c_status, c_body, c_responses, c_calls, c_fetched, c_data>>
  /\ UNCHANGED <<pc, status, body, sse, sent, ended, closed, heartbeat, hbStops,
                 hbTicks, id, closeFired, connected, calls, fetched, errText,
                 produced, decoder, loopExit>>
  /\ UNCHANGED cfgVars

\* line 119: the setTimeout callback
ChatTimeoutFire ==
  /\ c_id = "armed"
  /\ c_id' = "fired"
  /\ c_aborted' = TRUE
  /\ c_upstream' = IF ~c_aborted /\ c_upstream \in {"pending", "streaming"}
                     THEN "cancelled" ELSE c_upstream
  /\ UNCHANGED <<c_pc, c_status, c_body, c_responses, c_calls, c_fetched, c_data>>
  /\ UNCHANGED <<cfgVars, streamVars>>

\* the same continuation that calls the upstream again after a failed fetch
ChatFetchSettlesRetry ==
  /\ c_pc = "await_fetch"
  /\ \E o \in FetchOutcomes(c_aborted) \ {"nobody"} :
       /\ c_fetched' = o
       /\ CASE o = "abort" ->
                 /\ Respond(504, "error", "AI request timed out")
                 /\ UNCHANGED <<c_id, c_upstream, c_calls>>
            [] o = "neterr" ->
                 /\ c_calls' = c_calls + 1
                 /\ c_upstream' = "pending"
                 /\ UNCHANGED <<c_id, c_pc, c_status, c_body, c_responses>>
            [] o = "notok" ->
                 /\ c_id' = "cleared"
                 /\ c_upstream' = "streaming"
                 /\ c_pc' = "await_text"
                 /\ UNCHANGED <<c_status, c_body, c_responses, c_calls>>
            [] o = "ok" ->
                 /\ c_id' = "cleared"
                 /\ c_upstream' = "streaming"
                 /\ c_pc' = "await_json"
                 /\ UNCHANGED <<c_status, c_body, c_responses, c_calls>>
  /\ UNCHANGED <<c_aborted, c_data>>
  /\ UNCHANGED <<cfgVars, streamVars>>

\* lines 127-138 and 148-152: the continuation of `await fetch(...)`
ChatFetchSettles ==
  /\ c_pc = "await_fetch"
  /\ \E o \in FetchOutcomes(c_aborted) \ {"nobody"} :
       /\ c_fetched' = o
       /\ CASE o = "abort" ->
                 /\ Respond(ChatCaught("AbortError").code, "error",
                            ChatCaught("AbortError").text)
                 /\ UNCHANGED <<c_id, c_upstream>>
            [] o = "neterr" ->
                 /\ Respond(ChatCaught("FetchError").code, "error",
                            ChatCaught("FetchError").text)
                 /\ c_upstream' = "failed"
                 /\ UNCHANGED c_id
            [] o = "notok" ->
                 /\ c_id' = "cleared"
                 /\ c_upstream' = "streaming"
                 /\ c_pc' = "await_text"
                 /\ UNCHANGED <<c_status, c_body, c_responses>>
            [] o = "ok" ->
                 /\ c_id' = "cleared"
                 /\ c_upstream' = "streaming"
                 /\ c_pc' = "await_json"
                 /\ UNCHANGED <<c_status, c_body, c_responses>>
  /\ UNCHANGED <<c_aborted, c_calls, c_data>>
  /\ UNCHANGED <<cfgVars, streamVars>>

\* lines 139-141: the continuation of `await r.text().catch(()=>null)`
ChatTextSettles ==
  /\ c_pc = "await_text"
  /\ \E o \in TextOutcomes(c_aborted) :
       c_upstream' = IF o = "ok" THEN "finished" ELSE "failed"
  /\ Respond(502, "error", "Upstream AI API error")
  /\ UNCHANGED <<c_id, c_aborted, c_calls, c_fetched, c_data>>
  /\ UNCHANGED <<cfgVars, streamVars>>

\* lines 144-147: the continuation of `await r.json().catch(()=>null)`
ChatJsonSettles ==
  /\ c_pc = "await_json"
  /\ \E data \in Datas :
       /\ c_data' = data
       /\ Respond(200, "reply", ExtractReply(data))
  /\ c_upstream' = "finished"
  /\ UNCHANGED <<c_id, c_aborted, c_calls, c_fetched>>
  /\ UNCHANGED <<cfgVars, streamVars>>

ChatNext ==
  \/ ChatRequest
  \/ ChatTimeoutFire
  \/ ChatFetchSettles
  \/ ChatTextSettles
  \/ ChatJsonSettles

Next == StreamNext \/ ChatNext

Spec == Init /\ [][Next]_vars

\* ================================================================ properties
\* the events of kind k in s, in order
OfKind(s, k) == SelectSeq(s, LAMBDA e : e.kind = k)
\* s without the keep-alive comments
NonHeartbeat(s) == SelectSeq(s, LAMBDA e : e.kind # "comment")
\* the terminal events of s: the completion sentinel and the error events
Terminal(s) == SelectSeq(s, LAMBDA e : e.kind \in {"done", "error"})
\* the chunk events and the completion sentinel of s
Relayed(s) == SelectSeq(s, LAMBDA e : e.kind \in {"chunk", "done"})
\* the texts of the chunk events of s, in order
ChunkTexts(s) == [i \in 1..Len(OfKind(s, "chunk")) |-> OfKind(s, "chunk")[i].payload]
\* the streaming handler is over: it returned, or an error left it
Finished == pc \in {"done", "threw"}
ErrorBody(text) == [kind |-> "error", text |-> text]
\* the value is absent or the empty string
MissingOrEmpty(v) == v \in {Undefined, ""}

\* ---- C1
\* C1: a request to either endpoint whose message is empty or missing is
\* answered 400 {error: 'message required'} and issues no upstream call.
C1_EmptyMessageRejected ==
  MissingOrEmpty(message) =>
    /\ calls = 0 /\ c_calls = 0
    /\ upstream = "none" /\ c_upstream = "none"
    /\ pc \in {"idle", "start", "done"}
    /\ c_pc \in {"idle", "start", "done"}
    /\ pc = "done" => status = 400 /\ body = "message required"
    /\ c_pc = "done" => /\ c_status = 400
                        /\ c_body = ErrorBody("message required")
                        /\ c_responses = 1

C1_Witness == message = "" /\ pc = "done" /\ status = 400 /\ calls = 0

\* ---- C2
\* C2: when the prompt is missing or the credential is not configured, the
\* streaming endpoint answers 400 (prompt) or 500 'GEMINI_API_KEY not
\* configured in server' and, in that request, opens no event stream, starts
\* no keep-alive timer, writes no stream event and issues no upstream call.
C2_StreamFailsFast ==
  (pc # "idle" /\ (MissingOrEmpty(message) \/ MissingOrEmpty(GEMINI_API_KEY))) =>
    /\ ~sse /\ heartbeat = "unset" /\ id = "unset" /\ hbTicks = 0
    /\ sent = <<>>
    /\ calls = 0 /\ upstream = "none"
    /\ pc \in {"start", "done"}
    /\ pc = "done" =>
         IF MissingOrEmpty(message)
           THEN status = 400 /\ body = "message required"
           ELSE status = 500 /\ body = "GEMINI_API_KEY not configured in server"

C2_Witness ==
  /\ message = "hi" /\ GEMINI_API_KEY = Undefined
  /\ pc = "done" /\ status = 500 /\ ~sse

\* ---- C3
\* UTF-8 encoding of a decoded text: what "the event equals the chunk" means
\* for a text and the bytes the upstream produced
RECURSIVE Encode(_)
Encode(text) ==
  IF text = <<>> THEN <<>>
  ELSE (CASE Head(text) = "A" -> <<"41">>
          [] Head(text) = "U+00E9" -> <<"C3", "A9">>
          [] OTHER -> <<"EF", "BF", "BD">>) \o Encode(Tail(text))

\* the texts a streaming decoder gives for a sequence of chunks, from state p
RECURSIVE DecodeAll(_, _)
DecodeAll(p, chunks) ==
  IF chunks = <<>> THEN <<>>
  ELSE LET d == Decode(p, Head(chunks))
       IN  <<d.text>> \o DecodeAll(d.pend, Tail(chunks))

\* every chunk is, on its own, complete and valid UTF-8 text
AllWhole(chunks) ==
  \A i \in 1..Len(chunks) :
    LET d == Decode(FALSE, chunks[i])
    IN  ~d.pend /\ \A j \in 1..Len(d.text) : d.text[j] # "U+FFFD"

\* a relay in which the upstream answered with a body and signalled its end,
\* and the client stayed connected (so no write failed)
SuccessfulRelay ==
  pc = "done" /\ fetched = "ok" /\ loopExit = "done" /\ connected

\* C3 as stated: in a successful relay the chunk events equal, element by
\* element, the chunks the upstream produced, and are followed by exactly one
\* '[DONE]', after which the channel is closed.
C3_Original ==
  SuccessfulRelay =>
    /\ Len(ChunkTexts(sent)) = Len(produced)
    /\ \A i \in 1..Len(produced) : Encode(ChunkTexts(sent)[i]) = produced[i]
    /\ NonHeartbeat(sent) = OfKind(sent, "chunk") \o <<DoneEvent>>
    /\ ended

\* C3 (amended): in a successful relay there is one chunk event per upstream
\* chunk, in the upstream's order, carrying the streaming UTF-8 decoding of
\* that chunk; the events equal the chunks element by element whenever every
\* chunk is complete valid UTF-8 on its own; they are followed by exactly one
\* '[DONE]', after which the channel is closed.
C3_RelayMatchesUpstream ==
  SuccessfulRelay =>
    /\ ChunkTexts(sent) = DecodeAll(FALSE, produced)
    /\ AllWhole(produced) =>
         \A i \in 1..Len(produced) : Encode(ChunkTexts(sent)[i]) = produced[i]
    /\ NonHeartbeat(sent) = OfKind(sent, "chunk") \o <<DoneEvent>>
    /\ ended

C3_Witness ==
  /\ SuccessfulRelay
  /\ produced = << <<"C3">>, <<"A9">> >>
  /\ ChunkTexts(sent) = << <<>>, <<"U+00E9">> >>
  /\ hbTicks = 1

\* ---- C4
\* C4: once the client's disconnect has reached the handler (the req 'close'
\* listener has run), no further chunk event and no completion sentinel is
\* emitted, wherever the handler was at that point.
C4_NoRelayAfterDisconnect ==
  [][closed => Relayed(sent') = Relayed(sent)]_vars

C4_Witness ==
  /\ pc = "done" /\ closed /\ loopExit = "closed"
  /\ Len(produced) = 2 /\ Len(OfKind(sent, "chunk")) = 1
  /\ OfKind(sent, "done") = <<>>

\* ---- C5
\* C5: when the upstream call is still pending at the timeout, the call is
\* cancelled; the streaming endpoint emits at most one 'AI request timed out'
\* event, and exactly that one event when the client is still connected; the
\* non-streaming endpoint answers 504 {error: 'AI request timed out'}.
C5_Timeout ==
  /\ (Finished /\ fetched = "abort" /\ abortCause = "timeout") =>
       /\ upstream = "cancelled"
       /\ Len(OfKind(sent, "error")) <= 1
       /\ connected =>
            /\ NonHeartbeat(sent) = <<ErrorEvent("AI request timed out")>>
            /\ ended
  /\ (c_pc = "done" /\ c_fetched = "abort") =>
       /\ c_upstream = "cancelled"
       /\ c_status = 504
       /\ c_body = ErrorBody("AI request timed out")

C5_Witness ==
  /\ pc = "done" /\ fetched = "abort" /\ abortCause = "timeout" /\ connected
  /\ id = "fired" /\ hbTicks = 1

\* ---- C6
\* C6 as stated: a started keep-alive timer sees exactly one stop operation
\* over the life of the request.
C6_Original ==
  heartbeat # "unset" =>
    /\ hbStops <= 1
    /\ Finished => hbStops = 1

\* C6 (amended): the handler stops a started keep-alive timer exactly once,
\* on whichever exit path it takes, and the close listener stops it once more
\* when the close event is delivered, before or after the handler finished:
\* one or two stop operations, and the timer is never armed once the handler
\* has finished or the close event was delivered.
C6_HeartbeatStopped ==
  heartbeat # "unset" =>
    /\ hbStops = (IF Finished THEN 1 ELSE 0) + (IF closeFired THEN 1 ELSE 0)
    /\ (Finished \/ closeFired) => heartbeat = "cleared"

C6_Witness == pc = "done" /\ closeFired /\ hbStops = 2 /\ fetched = "ok"

\* ---- C7
\* C7: the client is sent at most one terminal event, the completion marker
\* or one error event, under every interleaving.
C7_AtMostOneTerminal == Len(Terminal(sent)) <= 1

C7_Witness ==
  /\ pc = "done" /\ loopExit = "writefail"
  /\ Terminal(sent) = <<ErrorEvent("Internal server error")>>

\* ---- C8
\* C8: after an upstream non-success status, with the client still
\* connected, the client gets exactly one {"error":"Upstream error"} event,
\* no chunk and no sentinel, the keep-alive is stopped and the channel
\* closed, whether or not the upstream error body could be read.
C8_UpstreamError ==
  (Finished /\ fetched = "notok" /\ connected) =>
    /\ NonHeartbeat(sent) = <<ErrorEvent("Upstream error")>>
    /\ heartbeat = "cleared"
    /\ ended /\ pc = "done"

C8_Witness ==
  pc = "done" /\ fetched = "notok" /\ connected /\ errText = "failed"

\* ---- C9
\* the first element of a list field has the property read from it
Present0(data, f) ==
  ~data.isNull /\ f.has /\ Len(f.items) > 0 /\ f.items[1].has

\* the reply chosen by which shape is present
ShapeReply(data) ==
  IF Present0(data, data.candidates) THEN data.candidates.items[1].val
  ELSE IF Present0(data, data.output) THEN data.output.items[1].val
  ELSE Stringify(data)

\* C9: on upstream success the reply is the first candidate's output when
\* that shape is present, else the first output element's content when that
\* shape is present, else the serialized response.
C9_ReplyByShape ==
  (c_pc = "done" /\ c_status = 200) =>
    c_body = [kind |-> "reply", text |-> ShapeReply(c_data)]

\* ---- C10
\* C10: a non-streaming request gets exactly one response, with the status
\* its outcome determines, and the handler always returns.
C10_ChatOneResponse ==
  /\ c_responses <= 1
  /\ c_pc \in {"idle", "start", "await_fetch", "await_text", "await_json", "done"}
  /\ c_pc = "done" =>
       /\ c_responses = 1
       /\ IF MissingOrEmpty(message)
            THEN c_status = 400 /\ c_body = ErrorBody("message required")
          ELSE IF MissingOrEmpty(GEMINI_API_KEY)
            THEN /\ c_status = 500
                 /\ c_body = ErrorBody("GEMINI_API_KEY not configured in server")
          ELSE CASE c_fetched = "notok" ->
                      c_status = 502 /\ c_body = ErrorBody("Upstream AI API error")
                 [] c_fetched = "abort" ->
                      c_status = 504 /\ c_body = ErrorBody("AI request timed out")
                 [] c_fetched = "neterr" ->
                      c_status = 500 /\ c_body = ErrorBody("Internal server error")
                 [] c_fetched = "ok" ->
                      c_status = 200 /\ c_body.kind = "reply"
                 [] OTHER -> FALSE

C10_Witness ==
  c_pc = "done" /\ c_fetched = "abort" /\ c_status = 504 /\ c_responses = 1

\* ---- C11
\* C11: the timeout timer and the client's close event both trigger the one
\* cancellation token.  The first trigger cancels the upstream call in
\* flight; a trigger after the first cancels nothing again, writes no event
\* and leaves the handler's position, the channel and the recorded cause as
\* they were.
C11_AbortIdempotent ==
  [][/\ (~aborted /\ abortCalls' > abortCalls) =>
          /\ aborted'
          /\ abortCause' \in {"timeout", "close"}
          /\ upstream \in {"pending", "streaming"} => upstream' = "cancelled"
     /\ (aborted /\ abortCalls' > abortCalls) =>
          /\ aborted'
          /\ abortCause' = abortCause
          /\ upstream' = upstream
          /\ sent' = sent
          /\ pc' = pc /\ ended' = ended /\ fetched' = fetched
    ]_vars

C11_Witness ==
  /\ abortCalls = 2 /\ abortCause = "timeout" /\ id = "fired" /\ closeFired
  /\ upstream = "cancelled" /\ pc = "await_fetch"

\* ---- C12
\* C12: when the streaming handler finishes, on whichever exit path, neither
\* the keep-alive timer nor the timeout timer of the request is still armed.
C12_TimersReleased ==
  (sse /\ Finished) => (heartbeat # "armed" /\ id # "armed")

\* ---- C13
\* Two requests in flight at once: one to each endpoint, each with its own
\* session; their continuations interleave in any order.
InitBoth ==
  /\ message \in Messages
  /\ GEMINI_API_KEY \in ApiKeys
  /\ pc = "start" /\ c_pc = "start"
  /\ status = 0 /\ body = "" /\ sse = FALSE /\ sent = <<>> /\ ended = FALSE
  /\ closed = FALSE /\ heartbeat = "unset" /\ hbStops = 0 /\ hbTicks = 0
  /\ aborted = FALSE /\ abortCause = "none" /\ abortCalls = 0 /\ id = "unset"
  /\ closeFired = FALSE /\ connected = TRUE /\ upstream = "none" /\ calls = 0
  /\ fetched = "none" /\ errText = "none" /\ produced = <<>> /\ decoder = FALSE
  /\ loopExit = "none"
  /\ c_status = 0 /\ c_body = [kind |-> "none", text |-> ""] /\ c_responses = 0
  /\ c_id = "unset" /\ c_aborted = FALSE /\ c_upstream = "none" /\ c_calls = 0
  /\ c_fetched = "none"
  /\ c_data = Null

\* what keeps the product of the two sessions small: one chunk fewer than a
\* lone streaming session may read, and upstream replies without list fields
BothBound ==
  /\ Len(produced) < MaxChunks
  /\ c_data.candidates = NoField /\ c_data.output = NoField

NextBoth ==
  \/ StreamNext /\ BothBound'
  \/ ChatNext /\ BothBound'

SpecBoth == InitBoth /\ [][NextBoth]_vars

C14_WriteFailureSilent ==
  loopExit = "writefail" =>
    /\ pc \in {"done", "threw"}
    /\ Len(OfKind(sent, "chunk")) = Len(produced) - 1
    /\ OfKind(sent, "error") = <<>>

\* ---- C15
\* C15: '[DONE]' is emitted only when the upstream signalled completion and
\* every chunk it produced was relayed; never after the loop was left because
\* a chunk write failed.
C15_DoneOnlyOnCompletion ==
  OfKind(sent, "done") # <<>> =>
    /\ loopExit = "done"
    /\ Len(OfKind(sent, "chunk")) = Len(produced)

\* ---- C16
TimedOutEvent == ErrorEvent("AI request timed out")

\* C16: once the close listener has run, nothing more is written to the
\* channel: no chunk, no completion marker, no error event; and an abort
\* caused by the disconnect is never reported to the client as a timeout.
C16_SilentAfterDisconnect ==
  /\ [][closed => sent' = sent]_vars
  /\ [](abortCause = "close" => \A i \in 1..Len(sent) : sent[i] # TimedOutEvent)

C16_Witness ==
  /\ pc = "done" /\ closed /\ fetched = "abort" /\ abortCause = "close"
  /\ id = "armed" /\ NonHeartbeat(sent) = <<>>

\* ---- C17
\* C17: a request to either endpoint issues at most one upstream call,
\* whatever its outcome.
C17_NoRetry ==
  /\ calls <= 1 /\ c_calls <= 1
  /\ Finished => calls = (IF sse THEN 1 ELSE 0)
  /\ c_pc = "done" => c_calls = (IF c_fetched = "none" THEN 0 ELSE 1)

C17_Witness ==
  c_pc = "done" /\ c_fetched = "neterr" /\ c_status = 500 /\ c_calls = 1

\* ---- C18
\* C18: the timeout covers only the wait for the upstream response: once the
\* upstream has responded the timer is disarmed, the timeout never cancels
\* the body read, and no 'AI request timed out' event follows a chunk event;
\* from then on only the client's disconnect aborts the upstream.
C18_TimeoutOnlyBeforeResponse ==
  /\ fetched \in {"ok", "nobody", "notok"} =>
       /\ id = "cleared"
       /\ abortCause \in {"none", "close"}
       /\ aborted => closeFired
  /\ OfKind(sent, "chunk") # <<>> =>
       \A i \in 1..Len(sent) : sent[i] # TimedOutEvent

C18_Witness ==
  /\ pc = "done" /\ fetched = "ok" /\ id = "cleared"
  /\ abortCause = "close" /\ upstream = "cancelled"
  /\ Len(OfKind(sent, "chunk")) = 1

\* ---- C19
\* C19: no keep-alive comment is written after the relay ended the channel or
\* after the close listener ran; the keep-alive timer is stopped whenever the
\* channel has been ended; and the chunk events keep the upstream's order
\* whatever comments are interleaved with them.
C19_HeartbeatOrder ==
  /\ [][(ended \/ closed) => OfKind(sent', "comment") = OfKind(sent, "comment")]_vars
  /\ []((sse /\ ended) => heartbeat = "cleared")
  /\ [](/\ Len(ChunkTexts(sent)) <= Len(produced)
        /\ ChunkTexts(sent) =
             SubSeq(DecodeAll(FALSE, produced), 1, Len(ChunkTexts(sent))))

C19_Witness ==
  /\ pc = "done" /\ ended /\ heartbeat = "cleared" /\ hbTicks = 1
  /\ Len(sent) = 4
  /\ sent[1].kind = "chunk" /\ sent[2].kind = "comment"
  /\ sent[3].kind = "chunk" /\ sent[4].kind = "done"

\* ---- C20
\* The scheduling the event loop gives a streaming request: a started handler
\* runs, an armed timeout fires unless it is cleared, and every await
\* settles (the fetch and each body read return or are aborted).
Fairness ==
  /\ WF_vars(StreamRequest)
  /\ WF_vars(TimeoutFire)
  /\ WF_vars(FetchSettles)
  /\ WF_vars(TextSettles)
  /\ WF_vars(ReadSettles)

LiveSpec == Init /\ [][Next]_vars /\ Fairness

\* C20: every streaming request that passed validation eventually reaches a
\* state in which the relay has closed the channel and the keep-alive timer
\* is stopped.
C20_Terminates == sse ~> (ended /\ heartbeat = "cleared")

====
